---- MODULE Spec2Model ----
(***************************************************************************)
(* Model of src/phenotype_mapper.py (class PhenotypeMapper).               *)
(*                                                                         *)
(* A code string is a sequence of one-character strings, so that strip,    *)
(* upper, slicing, split and the regular expressions are computed on the   *)
(* characters as the Python code computes them.  A dict is a function      *)
(* whose DOMAIN is its key set.  A confidence is written in tenths         *)
(* (1.0 is 10, 0.9 is 9, 0.7 is 7, 0.5 is 5, 0.0 is 0).                    *)
(* self.phenotype_descriptions is written by _process_csv_file and read    *)
(* only by a print statement; it is left out.                              *)
(***************************************************************************)
EXTENDS Integers, Sequences, FiniteSets, TLC

VARIABLES
    pc,                  \* "build" | "load" | "loaded" | "ready" | "failed" | "fn"
    data_dir_exists,     \* self.data_dir.exists()
    corpus,              \* one entry per row read from the phenotype CSV files
    mapping_file_exists, \* self.mapping_file.exists()
    mapping_rows,        \* the rows of the crosswalk CSV file, in file order, while it is open
    phenotype_index,     \* self.phenotype_index
    code_descriptions,   \* self.code_descriptions
    icd9_to_icd10_map,   \* self.icd9_to_icd10_map
    icd10_to_icd9_map,   \* self.icd10_to_icd9_map
    load_error,          \* the except branch of _load_icd9_mapping was taken
    last_call,           \* the last map_code / map_codes_batch call and its outcome
    fn_in,               \* input of a normalizer / classifier application
    fn_out               \* its output

vars == <<pc, data_dir_exists, corpus, mapping_file_exists, mapping_rows,
          phenotype_index, code_descriptions, icd9_to_icd10_map,
          icd10_to_icd9_map, load_error, last_call, fn_in, fn_out>>

---------------------------------------------------------------------------
(* Bounds of the model *)

MaxCorpusRows == 3
MaxMapRows == 2
MaxBatch == 2
MaxLen == 5
MaxDigits == 19

---------------------------------------------------------------------------
(* Characters and strings *)

Digits == {"0", "1", "2", "3", "4", "5", "6", "7", "8", "9"}

UpperAZ == {"A", "B", "C", "D", "E", "F", "G", "H", "I", "J", "K", "L", "M",
            "N", "O", "P", "Q", "R", "S", "T", "U", "V", "W", "X", "Y", "Z"}

IsSpace(c) == c = " "

IsDigit(c) == c \in Digits

UpperChar(c) ==
    CASE c = "e" -> "E"
      [] c = "v" -> "V"
      [] c = "a" -> "A"
      [] OTHER -> c

Range(s) == {s[i] : i \in 1..Len(s)}

\* str.strip()
Strip(s) ==
    IF \A i \in 1..Len(s) : IsSpace(s[i])
    THEN <<>>
    ELSE LET lo == CHOOSE i \in 1..Len(s) :
                       /\ ~IsSpace(s[i])
                       /\ \A j \in 1..(i-1) : IsSpace(s[j])
             hi == CHOOSE i \in 1..Len(s) :
                       /\ ~IsSpace(s[i])
                       /\ \A j \in (i+1)..Len(s) : IsSpace(s[j])
         IN SubSeq(s, lo, hi)

\* str.upper()
Upper(s) == IF s = <<>> THEN <<>> ELSE [i \in 1..Len(s) |-> UpperChar(s[i])]

\* str.startswith(p)
StartsWith(s, p) == Len(s) >= Len(p) /\ SubSeq(s, 1, Len(p)) = p

\* s.split('.')[0]
SplitDotFirst(s) ==
    IF "." \notin Range(s)
    THEN s
    ELSE LET d == CHOOSE i \in 1..Len(s) :
                      s[i] = "." /\ \A j \in 1..(i-1) : s[j] # "."
         IN SubSeq(s, 1, d - 1)

\* s[:n]
Take(s, n) == SubSeq(s, 1, IF Len(s) < n THEN Len(s) ELSE n)

\* s[n:]
Drop(s, n) == SubSeq(s, n + 1, Len(s))

SeqsUpTo(S, n) == UNION {[1..k -> S] : k \in 0..n}

---------------------------------------------------------------------------
(* Code Normalizer *)

format_icd9_code_NoDotCheck(code) ==
    LET c == Strip(code)
    IN IF c # <<>> /\ c[1] \in {"V", "E"} THEN c
       ELSE IF Len(c) >= 4 THEN Take(c, 3) \o <<".">> \o Drop(c, 3)
       ELSE c

format_icd9_code(code) ==
    LET c == Strip(code)
    IN IF c # <<>> /\ c[1] \in {"V", "E"} THEN c
       ELSE IF Len(c) >= 4 /\ "." \notin Range(c)
            THEN Take(c, 3) \o <<".">> \o Drop(c, 3)
       ELSE c

format_icd10_code(code) ==
    LET c == Upper(Strip(code))
    IN IF Len(c) >= 4 /\ "." \notin Range(c)
       THEN Take(c, 3) \o <<".">> \o Drop(c, 3)
       ELSE c

---------------------------------------------------------------------------
(* Code Classifier *)

\* (\.\d+)?$ after the first n characters
DecimalSuffix(s, n) ==
    \/ Len(s) = n
    \/ /\ Len(s) >= n + 2
       /\ s[n + 1] = "."
       /\ \A i \in (n + 2)..Len(s) : IsDigit(s[i])

\* ^[A-Z]\d{2}(\.\d+)?$
MatchesIcd10(s) ==
    /\ Len(s) >= 3
    /\ s[1] \in UpperAZ
    /\ IsDigit(s[2]) /\ IsDigit(s[3])
    /\ DecimalSuffix(s, 3)

\* ^(\d{3}(\.\d+)?|[VE]\d{2}(\.\d+)?)$
MatchesIcd9(s) ==
    /\ Len(s) >= 3
    /\ \/ IsDigit(s[1]) /\ IsDigit(s[2]) /\ IsDigit(s[3])
       \/ s[1] \in {"V", "E"} /\ IsDigit(s[2]) /\ IsDigit(s[3])
    /\ DecimalSuffix(s, 3)

\* ^\d{6,18}$
MatchesSnomed(s) ==
    /\ Len(s) >= 6
    /\ Len(s) <= 18
    /\ \A i \in 1..Len(s) : IsDigit(s[i])

detect_code_type_Icd9First(medical_code) ==
    LET c == Strip(medical_code)
    IN IF MatchesIcd9(c) THEN "icd9"
       ELSE IF MatchesIcd10(c) THEN "icd10"
       ELSE IF MatchesSnomed(c) THEN "snomed"
       ELSE "unknown"

detect_code_type(medical_code) ==
    LET c == Strip(medical_code)
    IN IF MatchesIcd10(c) THEN "icd10"
       ELSE IF MatchesIcd9(c) THEN "icd9"
       ELSE IF MatchesSnomed(c) THEN "snomed"
       ELSE "unknown"

---------------------------------------------------------------------------
(* Dictionaries *)

EmptyDict == <<>>

DictSet(d, k, v) == [x \in (DOMAIN d) \cup {k} |-> IF x = k THEN v ELSE d[x]]

\* value returned by d.get(k, set()) and by defaultdict(set)[k]
Lookup(d, k) == IF k \in DOMAIN d THEN d[k] ELSE {}

\* the defaultdict after d[k]: a missing key is inserted with an empty set
AfterGetItem(d, k) == IF k \in DOMAIN d THEN d ELSE DictSet(d, k, {})

AfterGet_Inserting(d, k) == IF k \in DOMAIN d THEN d ELSE DictSet(d, k, {})

\* the defaultdict after d.get(k, set()): never changed
AfterGet(d, k) == d

\* d[k].add(v) / d[k].update(vs) on a defaultdict(set)
DictAddAll(d, k, vs) == DictSet(AfterGetItem(d, k), k, Lookup(d, k) \cup vs)

\* code_descriptions.get(k, '')
DescGet(d, k) == IF k \in DOMAIN d THEN d[k] ELSE ""

\* phenotype_index as built by __init__
EmptyIndex == [icd10 |-> EmptyDict, snomed |-> EmptyDict, icd9 |-> EmptyDict]

---------------------------------------------------------------------------
(* Phenotype Index Builder *)

\* The body of the row loop of _process_csv_file, for a row of a file of
\* phenotype row.phenotype_name and code type row.code_type.
\* st = [index, desc]
process_csv_row(st, row) ==
    LET medical_code == Strip(row.MEDICAL_CODE_ID)
        description == row.DESCRIPTION
        snomed_code == Strip(row.SNOMED_CT_CODE)
        ct == row.code_type
        idx1 == [st.index EXCEPT
                    ![ct] = DictAddAll(@, medical_code, {row.phenotype_name})]
        desc1 == DictSet(st.desc, medical_code, description)
    IN IF medical_code = <<>> THEN st
       ELSE IF ct = "snomed" /\ snomed_code # <<>>
            THEN [index |-> [idx1 EXCEPT
                               !.snomed = DictAddAll(@, snomed_code,
                                                     {row.phenotype_name})],
                  desc |-> DictSet(desc1, snomed_code, description)]
            ELSE [index |-> idx1, desc |-> desc1]

---------------------------------------------------------------------------
(* ICD9-ICD10 Crosswalk Loader *)

\* int(s) succeeds
IntOk(s) ==
    LET t == Strip(s)
        body == IF t # <<>> /\ t[1] \in {"+", "-"} THEN Tail(t) ELSE t
    IN body # <<>> /\ \A i \in 1..Len(body) : IsDigit(body[i])

\* int(s) is not zero (the truth value of int(s))
IntTruthy(s) == \E i \in 1..Len(s) : IsDigit(s[i]) /\ s[i] # "0"

\* a row on which the loop body raises (int() of a non-integer field)
RowRaises(row) == ~IntOk(row.approximate) \/ ~IntOk(row.no_map)

\* a row the loop body skips with `continue`
RowSkipped(row) ==
    \/ IntTruthy(row.no_map)
    \/ Strip(row.icd9cm) = <<>>
    \/ Strip(row.icd10cm) = <<>>

load_icd9_row_KeepDescription(st, row) ==
    LET icd10_code == Strip(row.icd10cm)
        icd9_code == Strip(row.icd9cm)
        icd9_formatted == format_icd9_code(icd9_code)
        icd10_formatted == format_icd10_code(icd10_code)
        fwd1 == DictSet(st.fwd, icd9_formatted,
                        [icd10 |-> icd10_formatted,
                         approximate |-> IntTruthy(row.approximate)])
        inv1 == DictAddAll(st.inv, icd10_formatted, {icd9_formatted})
        backfill == icd10_formatted \in DOMAIN st.index.icd10
        idx1 == IF backfill
                THEN [st.index EXCEPT
                        !.icd9 = DictAddAll(@, icd9_formatted,
                                            st.index.icd10[icd10_formatted])]
                ELSE st.index
        desc1 == IF /\ backfill /\ icd10_formatted \in DOMAIN st.desc
                    /\ icd9_formatted \notin DOMAIN st.desc
                 THEN DictSet(st.desc, icd9_formatted, st.desc[icd10_formatted])
                 ELSE st.desc
    IN IF RowRaises(row) THEN [st EXCEPT !.error = TRUE]
       ELSE IF RowSkipped(row) THEN st
       ELSE [index |-> idx1, desc |-> desc1, fwd |-> fwd1, inv |-> inv1,
             error |-> FALSE]

load_icd9_row_NoBackfill(st, row) ==
    LET icd10_code == Strip(row.icd10cm)
        icd9_code == Strip(row.icd9cm)
        icd9_formatted == format_icd9_code(icd9_code)
        icd10_formatted == format_icd10_code(icd10_code)
        fwd1 == DictSet(st.fwd, icd9_formatted,
                        [icd10 |-> icd10_formatted,
                         approximate |-> IntTruthy(row.approximate)])
        inv1 == DictAddAll(st.inv, icd10_formatted, {icd9_formatted})
        backfill == FALSE
        idx1 == IF backfill
                THEN [st.index EXCEPT
                        !.icd9 = DictAddAll(@, icd9_formatted,
                                            st.index.icd10[icd10_formatted])]
                ELSE st.index
        desc1 == IF backfill /\ icd10_formatted \in DOMAIN st.desc
                 THEN DictSet(st.desc, icd9_formatted, st.desc[icd10_formatted])
                 ELSE st.desc
    IN IF RowRaises(row) THEN [st EXCEPT !.error = TRUE]
       ELSE IF RowSkipped(row) THEN st
       ELSE [index |-> idx1, desc |-> desc1, fwd |-> fwd1, inv |-> inv1,
             error |-> FALSE]

\* The body of the row loop of _load_icd9_mapping.
\* st = [index, desc, fwd, inv, error]
load_icd9_row(st, row) ==
    LET icd10_code == Strip(row.icd10cm)
        icd9_code == Strip(row.icd9cm)
        icd9_formatted == format_icd9_code(icd9_code)
        icd10_formatted == format_icd10_code(icd10_code)
        fwd1 == DictSet(st.fwd, icd9_formatted,
                        [icd10 |-> icd10_formatted,
                         approximate |-> IntTruthy(row.approximate)])
        inv1 == DictAddAll(st.inv, icd10_formatted, {icd9_formatted})
        backfill == icd10_formatted \in DOMAIN st.index.icd10
        idx1 == IF backfill
                THEN [st.index EXCEPT
                        !.icd9 = DictAddAll(@, icd9_formatted,
                                            st.index.icd10[icd10_formatted])]
                ELSE st.index
        desc1 == IF backfill /\ icd10_formatted \in DOMAIN st.desc
                 THEN DictSet(st.desc, icd9_formatted, st.desc[icd10_formatted])
                 ELSE st.desc
    IN IF RowRaises(row) THEN [st EXCEPT !.error = TRUE]
       ELSE IF RowSkipped(row) THEN st
       ELSE [index |-> idx1, desc |-> desc1, fwd |-> fwd1, inv |-> inv1,
             error |-> FALSE]

RECURSIVE load_icd9_rows_Continue(_, _, _)
load_icd9_rows_Continue(st, rows, i) ==
    IF i > Len(rows) THEN st
    ELSE load_icd9_rows_Continue(
             [load_icd9_row(st, rows[i]) EXCEPT !.error = FALSE], rows, i + 1)

\* The row loop inside the try block: an exception leaves the loop.
RECURSIVE load_icd9_rows(_, _, _)
load_icd9_rows(st, rows, i) ==
    IF i > Len(rows) THEN st
    ELSE LET r == load_icd9_row(st, rows[i])
         IN IF r.error THEN r ELSE load_icd9_rows(r, rows, i + 1)

---------------------------------------------------------------------------
(* Resolver *)

find_partial_matches_ScanAtLength(part, medical_code) ==
    LET code_base == SplitDotFirst(medical_code)
        exact == IF code_base \in DOMAIN part THEN part[code_base] ELSE {}
        scan(length) ==
            IF Len(code_base) >= length
            THEN UNION {part[k] : k \in {x \in DOMAIN part :
                                   StartsWith(x, Take(code_base, length))}}
            ELSE {}
    IN exact \cup scan(4) \cup scan(3) \cup scan(2)

find_partial_matches_NoLength2(part, medical_code) ==
    LET code_base == SplitDotFirst(medical_code)
        exact == IF code_base \in DOMAIN part THEN part[code_base] ELSE {}
        scan(length) ==
            IF Len(code_base) > length
            THEN UNION {part[k] : k \in {x \in DOMAIN part :
                                   StartsWith(x, Take(code_base, length))}}
            ELSE {}
    IN exact \cup scan(4) \cup scan(3)

\* _find_partial_matches(medical_code, code_type) on partition part
find_partial_matches(part, medical_code) ==
    LET code_base == SplitDotFirst(medical_code)
        exact == IF code_base \in DOMAIN part THEN part[code_base] ELSE {}
        scan(length) ==
            IF Len(code_base) > length
            THEN UNION {part[k] : k \in {x \in DOMAIN part :
                                   StartsWith(x, Take(code_base, length))}}
            ELSE {}
    IN exact \cup scan(4) \cup scan(3) \cup scan(2)

\* the result structure initialised at the top of map_code
InitialResult(original_code, formatted_code, code_type) ==
    [input_code |-> original_code,
     formatted_code |-> formatted_code,
     detected_type |-> code_type,
     phenotypes |-> {},
     description |-> "",
     match_type |-> "none",
     confidence |-> 0,
     mapping_path |-> <<>>,
     approximate_match |-> FALSE]

\* result.update(...) of the direct tier
DirectResult(res, phenotypes, desc) ==
    [res EXCEPT !.phenotypes = phenotypes,
                !.description = DescGet(desc, res.formatted_code),
                !.match_type = "direct",
                !.confidence = 10,
                !.mapping_path = <<res.detected_type, "phenotype">>]

\* result.update(...) of the tier that maps ICD9 through ICD10
MappedResult(res, icd10_phenotypes, desc, mapping_info) ==
    [res EXCEPT !.phenotypes = icd10_phenotypes,
                !.description = DescGet(desc, mapping_info.icd10),
                !.match_type = "mapped",
                !.confidence = IF ~mapping_info.approximate THEN 9 ELSE 7,
                !.mapping_path = <<"icd9", "icd10", mapping_info.icd10,
                                   "phenotype">>,
                !.approximate_match = mapping_info.approximate]

PartialResult_Always(res, partial_phenotypes, desc) ==
    [res EXCEPT !.phenotypes = partial_phenotypes,
                !.description = DescGet(desc, res.formatted_code),
                !.match_type = "partial",
                !.confidence = 5,
                !.mapping_path = <<res.detected_type, "phenotype",
                                   "partial match">>]

\* the partial tier: result.update(...) only if partial_phenotypes is not empty
PartialResult(res, partial_phenotypes, desc) ==
    IF partial_phenotypes # {}
    THEN [res EXCEPT !.phenotypes = partial_phenotypes,
                     !.description = DescGet(desc, res.formatted_code),
                     !.match_type = "partial",
                     !.confidence = 5,
                     !.mapping_path = <<res.detected_type, "phenotype",
                                        "partial match">>]
    ELSE res

\* the crosswalk bridge of the formatted code is viable
BridgeViable(index, fwd, code_type, formatted_code) ==
    /\ code_type = "icd9"
    /\ formatted_code \in DOMAIN fwd
    /\ Lookup(index.icd10, fwd[formatted_code].icd10) # {}

ResolveTiers_BridgeFirst(index, desc, fwd, res) ==
    LET ct == res.detected_type
        fc == res.formatted_code
        phenotypes == Lookup(index[ct], fc)
    IN IF BridgeViable(index, fwd, ct, fc)
       THEN MappedResult(res, Lookup(index.icd10, fwd[fc].icd10), desc, fwd[fc])
       ELSE IF phenotypes # {}
       THEN DirectResult(res, phenotypes, desc)
       ELSE PartialResult(res, find_partial_matches(index[ct], fc), desc)

\* the three tiers of map_code, in the order of the code
ResolveTiers(index, desc, fwd, res) ==
    LET ct == res.detected_type
        fc == res.formatted_code
        phenotypes == Lookup(index[ct], fc)
    IN IF phenotypes # {}
       THEN DirectResult(res, phenotypes, desc)
       ELSE IF BridgeViable(index, fwd, ct, fc)
       THEN MappedResult(res, Lookup(index.icd10, fwd[fc].icd10), desc, fwd[fc])
       ELSE PartialResult(res, find_partial_matches(index[ct], fc), desc)

\* the code type map_code resolves
ResolvedType(medical_code, code_type) ==
    IF code_type = "auto" THEN detect_code_type(Strip(medical_code))
    ELSE code_type

\* the formatted code map_code looks up
FormattedCode(medical_code, code_type) ==
    LET original_code == Strip(medical_code)
        ct == ResolvedType(medical_code, code_type)
    IN CASE ct = "icd9" -> format_icd9_code(original_code)
         [] ct = "icd10" -> format_icd10_code(original_code)
         [] OTHER -> Upper(original_code)

Raised(exc) == [raised |-> TRUE, exc |-> exc, value |-> <<>>]

Returned(v) == [raised |-> FALSE, exc |-> "", value |-> v]

\* map_code(medical_code, code_type): what the call returns or raises.
\* self.phenotype_index is a plain dict with the keys icd10, snomed and icd9:
\* self.phenotype_index[code_type] raises KeyError for any other code type.
map_code(index, desc, fwd, medical_code, code_type) ==
    LET ct == ResolvedType(medical_code, code_type)
        res == InitialResult(Strip(medical_code),
                             FormattedCode(medical_code, code_type), ct)
    IN IF ct \notin DOMAIN index
       THEN Raised("KeyError")
       ELSE Returned(ResolveTiers(index, desc, fwd, res))

\* self.phenotype_index after map_code: the lookups of map_code are
\* .get(formatted_code, set()) on the partition of the resolved type and
\* .get(icd10_code, set()) on the icd10 partition; _find_partial_matches
\* subscripts only keys that are present.
index_after_map_code(index, fwd, medical_code, code_type) ==
    LET ct == ResolvedType(medical_code, code_type)
        fc == FormattedCode(medical_code, code_type)
        idx1 == IF ct \in DOMAIN index
                THEN [index EXCEPT ![ct] = AfterGet(@, fc)]
                ELSE index
    IN IF /\ ct = "icd9"
          /\ Lookup(index[ct], fc) = {}
          /\ fc \in DOMAIN fwd
       THEN [idx1 EXCEPT !.icd10 = AfterGet(@, fwd[fc].icd10)]
       ELSE idx1

\* map_codes_batch(codes, code_type): the list of results, or the exception
\* of the first map_code call that raises
map_codes_batch(index, desc, fwd, codes, code_type) ==
    LET outs == [i \in 1..Len(codes) |->
                    map_code(index, desc, fwd, codes[i], code_type)]
    IN IF \E i \in 1..Len(codes) : outs[i].raised
       THEN outs[CHOOSE i \in 1..Len(codes) :
                    outs[i].raised /\ \A j \in 1..(i-1) : ~outs[j].raised]
       ELSE Returned(IF codes = <<>> THEN <<>>
                     ELSE [i \in 1..Len(codes) |-> outs[i].value])

RECURSIVE index_after_batch(_, _, _, _, _)
index_after_batch(index, fwd, codes, code_type, i) ==
    IF i > Len(codes) THEN index
    ELSE IF ResolvedType(codes[i], code_type) \notin DOMAIN index THEN index
    ELSE index_after_batch(
             index_after_map_code(index, fwd, codes[i], code_type),
             fwd, codes, code_type, i + 1)

---------------------------------------------------------------------------
(* Inputs *)

s_E11_9 == <<"E", "1", "1", ".", "9">>
s_E119 == <<"E", "1", "1", "9">>
s_E11 == <<"E", "1", "1">>
s_E1 == <<"E", "1">>
s_E1_5 == <<"E", "1", ".", "5">>
s_e11_9_padded == <<" ", "e", "1", "1", ".", "9", " ">>
s_J45 == <<"J", "4", "5">>
s_I10 == <<"I", "1", "0">>
s_25000 == <<"2", "5", "0", "0", "0">>
s_250_00 == <<"2", "5", "0", ".", "0", "0">>
s_25001 == <<"2", "5", "0", "0", "1">>
s_2501 == <<"2", "5", "0", "1">>
s_4019 == <<"4", "0", "1", "9">>
s_123456 == <<"1", "2", "3", "4", "5", "6">>
s_654321 == <<"6", "5", "4", "3", "2", "1">>
s_ABCDE == <<"A", "B", "C", "D", "E">>
s_blank == <<" ">>
s_0 == <<"0">>
s_1 == <<"1">>
s_x == <<"x">>

CorpusRow(p, ct, code, d, sn) ==
    [phenotype_name |-> p, code_type |-> ct, MEDICAL_CODE_ID |-> code,
     DESCRIPTION |-> d, SNOMED_CT_CODE |-> sn]

\* rows of the phenotype CSV files: _build_phenotype_index reads files of
\* code type icd10 and snomed only
CorpusRowSet ==
    { CorpusRow("Diabetes", "icd10", s_E11_9, "d1", <<>>),
      CorpusRow("Asthma", "icd10", s_J45, "d2", <<>>),
      CorpusRow("Diabetes", "icd10", s_E119, "d1", <<>>),
      CorpusRow("Asthma", "icd10", s_E1, "d2", <<>>),
      CorpusRow("Diabetes", "snomed", s_123456, "d1", s_654321),
      CorpusRow("Asthma", "snomed", s_250_00, "d2", s_blank),
      CorpusRow("Asthma", "icd10", s_blank, "d2", <<>>) }

MapRow(i10, i9, a, n) ==
    [icd10cm |-> i10, icd9cm |-> i9, approximate |-> a, no_map |-> n]

\* rows of the crosswalk CSV file
MapRowSet ==
    { MapRow(s_E119, s_25000, s_0, s_0),
      MapRow(s_E119, s_25000, s_1, s_0),
      MapRow(s_E119, s_25001, s_x, s_0),
      MapRow(s_J45, s_25000, s_1, s_0),
      MapRow(s_I10, s_4019, s_0, s_1) }

\* codes given to map_code
QueryCodes ==
    { s_25000, s_250_00, s_2501, s_E119, s_E11, s_E1, s_E1_5,
      s_e11_9_padded, s_ABCDE, s_123456 }

\* codes given to map_codes_batch
BatchCodes == { s_25000, s_ABCDE }

\* the code types the command line accepts
CodeTypes == {"auto", "icd9", "icd10", "snomed"}

NoCall ==
    [op |-> "none", codes |-> <<>>, code_type |-> "", outcome |-> Returned(<<>>)]

---------------------------------------------------------------------------
(* The mapper: construction, then calls *)

Init ==
    /\ pc = "build"
    /\ data_dir_exists \in BOOLEAN
    /\ corpus = <<>>
    /\ mapping_file_exists \in BOOLEAN
    /\ mapping_rows \in SeqsUpTo(MapRowSet, MaxMapRows)
    /\ ~mapping_file_exists => mapping_rows = <<>>
    /\ phenotype_index = EmptyIndex
    /\ code_descriptions = EmptyDict
    /\ icd9_to_icd10_map = EmptyDict
    /\ icd10_to_icd9_map = EmptyDict
    /\ load_error = FALSE
    /\ last_call = NoCall
    /\ fn_in = <<>>
    /\ fn_out = [op |-> "none"]

\* _build_phenotype_index raises FileNotFoundError: no mapper is constructed
BuildMissingDir ==
    /\ pc = "build"
    /\ ~data_dir_exists
    /\ pc' = "failed"
    /\ UNCHANGED <<data_dir_exists, corpus, mapping_file_exists, mapping_rows,
                   phenotype_index, code_descriptions, icd9_to_icd10_map,
                   icd10_to_icd9_map, load_error, last_call, fn_in, fn_out>>

\* _build_phenotype_index reads one more row of a phenotype file
\* (_process_csv_file); corpus counts the rows read
ProcessCsvRow ==
    /\ pc = "build"
    /\ data_dir_exists
    /\ Len(corpus) < MaxCorpusRows
    /\ \E row \in CorpusRowSet :
          LET st == process_csv_row([index |-> phenotype_index,
                                     desc |-> code_descriptions], row)
          IN /\ phenotype_index' = st.index
             /\ code_descriptions' = st.desc
    /\ corpus' = Append(corpus, "row")
    /\ UNCHANGED <<pc, data_dir_exists, mapping_file_exists, mapping_rows,
                   icd9_to_icd10_map, icd10_to_icd9_map, load_error, last_call,
                   fn_in, fn_out>>

\* _build_phenotype_index returns: every file of every folder was read
FinishBuild ==
    /\ pc = "build"
    /\ data_dir_exists
    /\ pc' = "load"
    /\ UNCHANGED <<data_dir_exists, corpus, mapping_file_exists, mapping_rows,
                   phenotype_index, code_descriptions, icd9_to_icd10_map,
                   icd10_to_icd9_map, load_error, last_call, fn_in, fn_out>>

\* _load_icd9_mapping when the mapping file does not exist
LoadMappingMissing ==
    /\ pc = "load"
    /\ ~mapping_file_exists
    /\ pc' = "ready"
    /\ UNCHANGED <<data_dir_exists, corpus, mapping_file_exists, mapping_rows,
                   phenotype_index, code_descriptions, icd9_to_icd10_map,
                   icd10_to_icd9_map, load_error, last_call, fn_in, fn_out>>

\* _load_icd9_mapping: the rows of the file are read
LoadIcd9Mapping ==
    /\ pc = "load"
    /\ mapping_file_exists
    /\ LET st == load_icd9_rows([index |-> phenotype_index,
                                 desc |-> code_descriptions,
                                 fwd |-> icd9_to_icd10_map,
                                 inv |-> icd10_to_icd9_map,
                                 error |-> FALSE], mapping_rows, 1)
       IN /\ phenotype_index' = st.index
          /\ code_descriptions' = st.desc
          /\ icd9_to_icd10_map' = st.fwd
          /\ icd10_to_icd9_map' = st.inv
          /\ load_error' = st.error
    /\ pc' = "loaded"
    /\ UNCHANGED <<data_dir_exists, corpus, mapping_file_exists, mapping_rows,
                   last_call, fn_in, fn_out>>

\* the with block of _load_icd9_mapping is left and __init__ returns: the
\* file is closed and the mapper keeps only what it recorded
CloseMappingFile ==
    /\ pc = "loaded"
    /\ mapping_rows' = <<>>
    /\ pc' = "ready"
    /\ UNCHANGED <<data_dir_exists, corpus, mapping_file_exists,
                   phenotype_index, code_descriptions, icd9_to_icd10_map,
                   icd10_to_icd9_map, load_error, last_call, fn_in, fn_out>>

\* a call of map_code; last_call holds the call until the caller has its result
MapCode ==
    /\ pc = "ready"
    /\ last_call = NoCall
    /\ \E code \in QueryCodes, ct \in CodeTypes :
          /\ last_call' = [op |-> "map_code", codes |-> <<code>>,
                           code_type |-> ct,
                           outcome |-> map_code(phenotype_index,
                                                code_descriptions,
                                                icd9_to_icd10_map, code, ct)]
          /\ phenotype_index' =
                index_after_map_code(phenotype_index, icd9_to_icd10_map,
                                     code, ct)
    /\ UNCHANGED <<pc, data_dir_exists, corpus, mapping_file_exists,
                   mapping_rows, code_descriptions, icd9_to_icd10_map,
                   icd10_to_icd9_map, load_error, fn_in, fn_out>>

\* a call of map_codes_batch
MapCodesBatch ==
    /\ pc = "ready"
    /\ last_call = NoCall
    /\ \E codes \in SeqsUpTo(BatchCodes, MaxBatch), ct \in CodeTypes :
          /\ last_call' = [op |-> "map_codes_batch", codes |-> codes,
                           code_type |-> ct,
                           outcome |-> map_codes_batch(phenotype_index,
                                                       code_descriptions,
                                                       icd9_to_icd10_map,
                                                       codes, ct)]
          /\ phenotype_index' =
                index_after_batch(phenotype_index, icd9_to_icd10_map,
                                  codes, ct, 1)
    /\ UNCHANGED <<pc, data_dir_exists, corpus, mapping_file_exists,
                   mapping_rows, code_descriptions, icd9_to_icd10_map,
                   icd10_to_icd9_map, load_error, fn_in, fn_out>>

\* the caller has the result (or the exception) of the call; the mapper is
\* single-threaded and synchronous, so the next call starts after this
ReturnToCaller ==
    /\ pc = "ready"
    /\ last_call # NoCall
    /\ last_call' = NoCall
    /\ UNCHANGED <<pc, data_dir_exists, corpus, mapping_file_exists,
                   mapping_rows, phenotype_index, code_descriptions,
                   icd9_to_icd10_map, icd10_to_icd9_map, load_error, fn_in,
                   fn_out>>

Next ==
    \/ BuildMissingDir
    \/ ProcessCsvRow
    \/ FinishBuild
    \/ LoadMappingMissing
    \/ LoadIcd9Mapping
    \/ CloseMappingFile
    \/ MapCode
    \/ MapCodesBatch
    \/ ReturnToCaller

Spec == Init /\ [][Next]_vars

---------------------------------------------------------------------------
(* The normalizer and the classifier applied to arbitrary strings *)

Alphabet == {"1", "A", "E", "e", ".", " "}

DigitRun(n) == [i \in 1..n |-> "1"]

FnInputs ==
    SeqsUpTo(Alphabet, MaxLen) \cup {DigitRun(n) : n \in 0..MaxDigits}

FnInit ==
    /\ pc = "fn"
    /\ data_dir_exists = TRUE
    /\ corpus = <<>>
    /\ mapping_file_exists = TRUE
    /\ mapping_rows = <<>>
    /\ phenotype_index = EmptyIndex
    /\ code_descriptions = EmptyDict
    /\ icd9_to_icd10_map = EmptyDict
    /\ icd10_to_icd9_map = EmptyDict
    /\ load_error = FALSE
    /\ last_call = NoCall
    /\ fn_in \in FnInputs
    /\ fn_out = [op |-> "none"]

FnFrame ==
    UNCHANGED <<pc, data_dir_exists, corpus, mapping_file_exists, mapping_rows,
                phenotype_index, code_descriptions, icd9_to_icd10_map,
                icd10_to_icd9_map, load_error, last_call, fn_in>>

\* _detect_code_type(fn_in)
ApplyDetect ==
    /\ pc = "fn"
    /\ fn_out' = [op |-> "detect", once |-> detect_code_type(fn_in)]
    /\ FnFrame

\* _format_icd9_code(fn_in), and _format_icd9_code of its result
ApplyFormatIcd9 ==
    /\ pc = "fn"
    /\ fn_out' = [op |-> "format_icd9", once |-> format_icd9_code(fn_in),
                  twice |-> format_icd9_code(format_icd9_code(fn_in))]
    /\ FnFrame

\* _format_icd10_code(fn_in), and _format_icd10_code of its result
ApplyFormatIcd10 ==
    /\ pc = "fn"
    /\ fn_out' = [op |-> "format_icd10", once |-> format_icd10_code(fn_in),
                  twice |-> format_icd10_code(format_icd10_code(fn_in))]
    /\ FnFrame

FnNext == ApplyDetect \/ ApplyFormatIcd9 \/ ApplyFormatIcd10

FnSpec == FnInit /\ [][FnNext]_vars

---------------------------------------------------------------------------
(* Properties *)

IsMapCodeCall == last_call.op = "map_code"

IsBatchCall == last_call.op = "map_codes_batch"

\* the resolved type and the formatted code of the map_code call in last_call
CallType == ResolvedType(last_call.codes[1], last_call.code_type)

CallCode == FormattedCode(last_call.codes[1], last_call.code_type)

\* C1: map_code never raises: every call, for every input string and every
\* code type (auto, icd9, icd10, snomed), also one whose code is classified
\* unknown, returns a result record; when no tier finds phenotypes the record
\* has match_type none, confidence 0.0 and an empty phenotype list.
C1_MapCodeNeverRaises ==
    IsMapCodeCall =>
        /\ ~last_call.outcome.raised
        /\ last_call.outcome.value.phenotypes = {} =>
              /\ last_call.outcome.value.match_type = "none"
              /\ last_call.outcome.value.confidence = 0

\* C2: tier priority: whenever the formatted code has a non-empty phenotype
\* set in the partition of its resolved type and its forward crosswalk entry
\* leads to an ICD10 code with phenotypes, map_code returns the direct result
\* (match_type direct, confidence 1.0, the phenotypes of the direct entry).
C2_HasDirectAndBridge ==
    /\ IsMapCodeCall
    /\ CallType \in DOMAIN phenotype_index
    /\ Lookup(phenotype_index[CallType], CallCode) # {}
    /\ CallCode \in DOMAIN icd9_to_icd10_map
    /\ Lookup(phenotype_index.icd10, icd9_to_icd10_map[CallCode].icd10) # {}

C2_DirectBeforeBridged ==
    C2_HasDirectAndBridge =>
        /\ ~last_call.outcome.raised
        /\ last_call.outcome.value.match_type = "direct"
        /\ last_call.outcome.value.confidence = 10
        /\ last_call.outcome.value.phenotypes =
              Lookup(phenotype_index[CallType], CallCode)

C2_Witness == C2_HasDirectAndBridge /\ CallType = "icd9"

\* C3: bridged scenario: after initialization from a corpus without ICD9
\* source entries, with E11.9 indexed under Diabetes in the icd10 partition
\* and a crosswalk row mapping 250.00 to E11.9, resolving ICD9 code 25000
\* returns match tier mapped, confidence 0.9 (0.7 and the approximate flag
\* set when the row is flagged approximate) and phenotypes {Diabetes}.
C3_Scenario ==
    /\ pc = "ready"
    /\ IsMapCodeCall
    /\ last_call.codes = <<s_25000>>
    /\ last_call.code_type = "icd9"
    /\ Lookup(phenotype_index.icd10, s_E11_9) = {"Diabetes"}
    /\ s_250_00 \in DOMAIN icd9_to_icd10_map
    /\ icd9_to_icd10_map[s_250_00].icd10 = s_E11_9

C3_BridgedScenario ==
    C3_Scenario =>
        /\ ~last_call.outcome.raised
        /\ last_call.outcome.value.match_type = "mapped"
        /\ last_call.outcome.value.phenotypes = {"Diabetes"}
        /\ last_call.outcome.value.approximate_match =
              icd9_to_icd10_map[s_250_00].approximate
        /\ last_call.outcome.value.confidence =
              (IF icd9_to_icd10_map[s_250_00].approximate THEN 7 ELSE 9)

\* the results a call returned
ReturnedResults ==
    IF last_call.outcome.raised THEN {}
    ELSE IF IsMapCodeCall THEN {last_call.outcome.value}
    ELSE IF IsBatchCall
    THEN {last_call.outcome.value[i] : i \in 1..Len(last_call.outcome.value)}
    ELSE {}

\* C4: every result map_code returns has a confidence among 1.0, 0.9, 0.7,
\* 0.5 and 0.0, fixed by the match tier: direct iff 1.0, mapped iff 0.9
\* (exact edge) or 0.7 (approximate edge), partial iff 0.5, none iff 0.0; the
\* phenotype list is empty exactly when the tier is none.
C4_ConfidenceByTier ==
    \A r \in ReturnedResults :
        /\ r.confidence \in {10, 9, 7, 5, 0}
        /\ r.match_type \in {"direct", "mapped", "partial", "none"}
        /\ r.match_type = "direct" <=> r.confidence = 10
        /\ r.match_type = "mapped" <=> r.confidence \in {9, 7}
        /\ r.match_type = "mapped" => (r.approximate_match <=> r.confidence = 7)
        /\ r.match_type = "partial" <=> r.confidence = 5
        /\ r.match_type = "none" <=> r.confidence = 0
        /\ r.phenotypes = {} <=> r.match_type = "none"

C4_Witness ==
    /\ IsMapCodeCall
    /\ ~last_call.outcome.raised
    /\ last_call.outcome.value.match_type = "partial"

\* [VE]\d{2}(\.\d+)?: the V- and E-prefixed codes of the ICD9 pattern
IsVECode(s) ==
    /\ Len(s) >= 3
    /\ s[1] \in {"V", "E"}
    /\ IsDigit(s[2]) /\ IsDigit(s[3])
    /\ DecimalSuffix(s, 3)

\* an all-digit 3-character code
IsThreeDigits(s) == Len(s) = 3 /\ \A i \in 1..3 : IsDigit(s[i])

\* a 6 to 18 digit numeric string
IsLongNumeric(s) ==
    Len(s) \in 6..18 /\ \A i \in 1..Len(s) : IsDigit(s[i])

\* C5 as claimed: on a trimmed code, every code of the ICD10 pattern is
\* classified icd10, every all-digit 3-character code and every V- or
\* E-prefixed code of the ICD9 pattern is classified icd9, and every 6 to 18
\* digit numeric string that does not match the ICD9 pattern is classified
\* snomed.
C5_ClassifierAsClaimed ==
    fn_out.op = "detect" =>
        LET c == Strip(fn_in)
        IN /\ MatchesIcd10(c) => fn_out.once = "icd10"
           /\ IsThreeDigits(c) => fn_out.once = "icd9"
           /\ IsVECode(c) => fn_out.once = "icd9"
           /\ IsLongNumeric(c) /\ ~MatchesIcd9(c) => fn_out.once = "snomed"

\* C5 amended: on a trimmed code, every code of the ICD10 pattern is
\* classified icd10, and this includes every V- or E-prefixed code of the
\* ICD9 pattern, which is never classified icd9; every all-digit 3-character
\* code is classified icd9; every 6 to 18 digit numeric string that does not
\* match the ICD9 pattern is classified snomed.
C5_Classifier ==
    fn_out.op = "detect" =>
        LET c == Strip(fn_in)
        IN /\ MatchesIcd10(c) => fn_out.once = "icd10"
           /\ IsThreeDigits(c) => fn_out.once = "icd9"
           /\ IsVECode(c) => fn_out.once = "icd10"
           /\ IsLongNumeric(c) /\ ~MatchesIcd9(c) => fn_out.once = "snomed"

C5_Witness ==
    /\ fn_out.op = "detect"
    /\ IsVECode(Strip(fn_in))
    /\ Len(fn_in) > 3
    /\ fn_out.once = "icd10"

\* C6: normalization is idempotent for both rules: formatting the result of
\* _format_icd9_code (of _format_icd10_code) again gives the same string.
C6_Idempotent ==
    fn_out.op \in {"format_icd9", "format_icd10"} => fn_out.twice = fn_out.once

C6_Witness ==
    /\ fn_out.op = "format_icd9"
    /\ "." \notin Range(fn_in)
    /\ "." \in Range(fn_out.once)
    /\ fn_out.twice = fn_out.once

\* C7: after initialization every key of every index partition is in
\* canonical form: it equals the result of applying the partition's
\* normalization rule (ICD10 rule, upper-casing for snomed, ICD9 rule) to
\* itself.
C7_KeysCanonical ==
    pc = "ready" =>
        /\ \A k \in DOMAIN phenotype_index.icd10 : format_icd10_code(k) = k
        /\ \A k \in DOMAIN phenotype_index.snomed : Upper(Strip(k)) = k
        /\ \A k \in DOMAIN phenotype_index.icd9 : format_icd9_code(k) = k

\* C8: after initialization no step (a map_code or map_codes_batch call, or
\* its return) changes the phenotype index, the code-description map or
\* either crosswalk map; a lookup of an absent code inserts no key.
C8_CallsDoNotMutate ==
    [][pc = "ready" =>
         UNCHANGED <<phenotype_index, code_descriptions, icd9_to_icd10_map,
                     icd10_to_icd9_map>>]_vars

C8_Witness ==
    /\ IsMapCodeCall
    /\ ~last_call.outcome.raised
    /\ last_call.outcome.value.match_type = "none"
    /\ CallCode \notin DOMAIN phenotype_index[CallType]
    /\ phenotype_index.icd10 # EmptyDict

\* C9: map_codes_batch returns exactly one result per input code, in input
\* order, each the result of map_code for that code; a code whose type is
\* unrecognized yields a none result at its position and does not abort the
\* batch.
C9_BatchOnePerCode ==
    IsBatchCall =>
        /\ ~last_call.outcome.raised
        /\ Len(last_call.outcome.value) = Len(last_call.codes)
        /\ \A i \in 1..Len(last_call.codes) :
              /\ last_call.outcome.value[i].input_code = Strip(last_call.codes[i])
              /\ ResolvedType(last_call.codes[i], last_call.code_type) = "unknown"
                    => last_call.outcome.value[i].match_type = "none"

\* a row that is well-formed and not skipped
RowWellFormed(row) == ~RowRaises(row) /\ ~RowSkipped(row)

\* the row is recorded in the forward and inverse maps and back-filled into
\* the icd9 partition
RowRecorded(row) ==
    LET i9 == format_icd9_code(row.icd9cm)
        i10 == format_icd10_code(row.icd10cm)
    IN /\ i9 \in DOMAIN icd9_to_icd10_map
       /\ i9 \in Lookup(icd10_to_icd9_map, i10)
       /\ Lookup(phenotype_index.icd10, i10) \subseteq
             Lookup(phenotype_index.icd9, i9)

\* the position of the first malformed row, or one past the end of the file
FirstMalformed ==
    IF \E i \in 1..Len(mapping_rows) : RowRaises(mapping_rows[i])
    THEN CHOOSE i \in 1..Len(mapping_rows) :
             /\ RowRaises(mapping_rows[i])
             /\ \A j \in 1..(i-1) : ~RowRaises(mapping_rows[j])
    ELSE Len(mapping_rows) + 1

\* C10 as claimed: crosswalk loading skips a malformed row and continues:
\* when the file has been read, every well-formed, non-skipped row of the
\* file, also one that follows a malformed row, is recorded in the forward and
\* inverse maps and back-filled into the icd9 partition.
C10_MalformedRowSkipped ==
    pc = "loaded" =>
        \A i \in 1..Len(mapping_rows) :
            RowWellFormed(mapping_rows[i]) => RowRecorded(mapping_rows[i])

\* C10 amended: crosswalk loading stops at the first malformed row: when the
\* file has been read, every well-formed, non-skipped row before the first
\* malformed row is recorded in the forward and inverse maps and back-filled
\* into the icd9 partition; the malformed row and the rows after it are not
\* processed, so every key of the forward map comes from a row before it, and
\* the load ends in its error branch.
C10_LoadStopsAtMalformed ==
    pc = "loaded" =>
        /\ \A i \in 1..(FirstMalformed - 1) :
              RowWellFormed(mapping_rows[i]) => RowRecorded(mapping_rows[i])
        /\ \A k \in DOMAIN icd9_to_icd10_map :
              \E i \in 1..(FirstMalformed - 1) :
                 /\ RowWellFormed(mapping_rows[i])
                 /\ format_icd9_code(mapping_rows[i].icd9cm) = k
        /\ load_error <=> FirstMalformed <= Len(mapping_rows)

C10_Witness ==
    /\ pc = "loaded"
    /\ load_error
    /\ \E i \in 1..Len(mapping_rows) :
          /\ i > FirstMalformed
          /\ RowWellFormed(mapping_rows[i])
          /\ ~RowRecorded(mapping_rows[i])

\* the call in last_call is a map_code call whose direct and bridged tiers miss
PartialTierRan ==
    /\ IsMapCodeCall
    /\ CallType \in DOMAIN phenotype_index
    /\ Lookup(phenotype_index[CallType], CallCode) = {}
    /\ ~ /\ CallType = "icd9"
         /\ CallCode \in DOMAIN icd9_to_icd10_map
         /\ Lookup(phenotype_index.icd10, icd9_to_icd10_map[CallCode].icd10) # {}

\* the formatted code of the call with its decimal suffix stripped
CallBase == SplitDotFirst(CallCode)

\* the phenotype sets of the indexed codes of the call's partition that start
\* with the first n characters of the base
PrefixUnion(n) ==
    UNION {phenotype_index[CallType][k] :
              k \in {x \in DOMAIN phenotype_index[CallType] :
                        /\ Len(x) >= n
                        /\ \A i \in 1..n : x[i] = CallBase[i]}}

\* the union the partial tier is to return: the entry of the base, if present,
\* and for each length L in {4, 3, 2} with len(base) > L the phenotype sets of
\* the indexed codes that start with the first L characters of the base
C11_Union ==
    Lookup(phenotype_index[CallType], CallBase)
        \cup UNION {PrefixUnion(L) : L \in {n \in {4, 3, 2} : Len(CallBase) > n}}

\* C11: partial tier: when the direct and bridged tiers miss, the phenotype set
\* returned is exactly the union of the partition entry of the base (the
\* formatted code with its decimal suffix stripped), if present, and, for each
\* length L in {4, 3, 2} with len(base) > L, the phenotype sets of every
\* indexed code of the partition that starts with the first L characters of
\* the base; if the union is non-empty the result is tier partial with
\* confidence 0.5, otherwise tier none.
C11_PartialTier ==
    PartialTierRan =>
        /\ ~last_call.outcome.raised
        /\ last_call.outcome.value.phenotypes = C11_Union
        /\ C11_Union # {} =>
              /\ last_call.outcome.value.match_type = "partial"
              /\ last_call.outcome.value.confidence = 5
        /\ C11_Union = {} =>
              /\ last_call.outcome.value.match_type = "none"
              /\ last_call.outcome.value.confidence = 0

C11_Witness ==
    /\ PartialTierRan
    /\ Len(CallBase) > 2
    /\ last_call.outcome.value.match_type = "partial"
    /\ Cardinality(last_call.outcome.value.phenotypes) = 2

\* the step on which _load_icd9_mapping reads the crosswalk file
IsLoadStep == pc = "load" /\ pc' = "loaded"

\* the rows of the file whose loop body runs to its end
ProcessedRows ==
    {i \in 1..(FirstMalformed - 1) : RowWellFormed(mapping_rows[i])}

\* the processed rows that inherit a description for the code k: the row's
\* ICD9 code is k and its ICD10 code has phenotype entries and a description
InheritingRows(k) ==
    {i \in ProcessedRows :
        /\ format_icd9_code(mapping_rows[i].icd9cm) = k
        /\ format_icd10_code(mapping_rows[i].icd10cm)
              \in DOMAIN phenotype_index.icd10
        /\ format_icd10_code(mapping_rows[i].icd10cm)
              \in DOMAIN code_descriptions}

\* the last of the rows that inherit a description for the code k
LastInheritingRow(k) ==
    CHOOSE i \in InheritingRows(k) : \A j \in InheritingRows(k) : j <= i

\* C12 as claimed: the crosswalk back-fill inherits the ICD10 description for
\* an ICD9 code only if the ICD9 code has no description yet: a description
\* that exists when the crosswalk is loaded is left unchanged by the load.
C12_ExistingDescriptionKept ==
    [][IsLoadStep =>
          \A k \in DOMAIN code_descriptions :
             /\ k \in DOMAIN code_descriptions'
             /\ code_descriptions'[k] = code_descriptions[k]]_vars

\* C12 amended: the crosswalk back-fill inherits the ICD10 description for the
\* ICD9 code of every processed row whose ICD10 code has phenotype entries and
\* a description, overwriting a description the ICD9 code already has: after
\* the load the code carries the description of the ICD10 code of the last
\* such row, and the codes of no such row keep the description they had.
C12_DescriptionOverwritten ==
    [][IsLoadStep =>
          \A k \in DOMAIN code_descriptions' :
             IF InheritingRows(k) # {}
             THEN code_descriptions'[k] =
                     code_descriptions[format_icd10_code(
                         mapping_rows[LastInheritingRow(k)].icd10cm)]
             ELSE /\ k \in DOMAIN code_descriptions
                  /\ code_descriptions'[k] = code_descriptions[k]]_vars

C12_Witness ==
    /\ pc = "loaded"
    /\ s_250_00 \in DOMAIN phenotype_index.snomed
    /\ s_250_00 \in DOMAIN icd9_to_icd10_map
    /\ icd9_to_icd10_map[s_250_00].icd10 = s_E11_9
    /\ s_E11_9 \in DOMAIN phenotype_index.icd10
    /\ code_descriptions[s_250_00] = "d1"

\* the ICD9 codes of the forward crosswalk whose ICD10 target has a non-empty
\* phenotype set in the icd10 partition
BridgeableCodes ==
    {c \in DOMAIN icd9_to_icd10_map :
        Lookup(phenotype_index.icd10, icd9_to_icd10_map[c].icd10) # {}}

\* C13: after initialization, every ICD9 code of the forward crosswalk whose
\* ICD10 target has a non-empty phenotype set in the icd10 partition is a key
\* of the icd9 partition with a superset of the target's phenotypes; so a
\* call that resolves such a code as icd9 is answered by the direct tier, and
\* no call returns a result of the mapped tier.
C13_BackfillCoversBridge ==
    pc \in {"loaded", "ready"} =>
        /\ \A c \in BridgeableCodes :
              /\ c \in DOMAIN phenotype_index.icd9
              /\ Lookup(phenotype_index.icd10, icd9_to_icd10_map[c].icd10)
                    \subseteq phenotype_index.icd9[c]
        /\ (IsMapCodeCall /\ CallType = "icd9" /\ CallCode \in BridgeableCodes) =>
              /\ ~last_call.outcome.raised
              /\ last_call.outcome.value.match_type = "direct"
        /\ \A r \in ReturnedResults : r.match_type # "mapped"

C13_Witness ==
    /\ pc = "ready"
    /\ IsMapCodeCall
    /\ CallType = "icd9"
    /\ CallCode \in BridgeableCodes
    /\ icd9_to_icd10_map[CallCode].approximate
    /\ last_call.outcome.value.match_type = "direct"
    /\ last_call.outcome.value.phenotypes =
          Lookup(phenotype_index.icd10, icd9_to_icd10_map[CallCode].icd10)

\* C14: in the partial tier, when the base has more than two characters the
\* returned set is the union of the phenotype sets of all indexed codes of the
\* partition that share the first two characters of the base; when the base
\* has two characters or fewer no prefix scan runs and the returned set is
\* only the entry of the base itself, if any.
C14_TwoCharacterPrefix ==
    PartialTierRan =>
        /\ ~last_call.outcome.raised
        /\ last_call.outcome.value.phenotypes =
              (IF Len(CallBase) > 2
               THEN PrefixUnion(2)
               ELSE Lookup(phenotype_index[CallType], CallBase))

C14_Witness ==
    /\ PartialTierRan
    /\ Len(CallBase) = 2
    /\ last_call.outcome.value.match_type = "partial"
    /\ last_call.outcome.value.phenotypes = phenotype_index[CallType][CallBase]
    /\ ~(PrefixUnion(2) \subseteq last_call.outcome.value.phenotypes)

\* a call with a base of more than two characters that no indexed code equals
\* and that only the scan of two characters matches
C14_ScanWitness ==
    /\ PartialTierRan
    /\ Len(CallBase) > 2
    /\ CallBase \notin DOMAIN phenotype_index[CallType]
    /\ PrefixUnion(3) = {}
    /\ last_call.outcome.value.phenotypes # {}

====
